---------------------------- MODULE Spec2Model ----------------------------
(***************************************************************************)
(* A model of the query analysis routines of distributary-mysql            *)
(* (src/src/utils.rs) and of the shared state that run() hands to every    *)
(* connection thread (src/src/main.rs).                                     *)
(*                                                                         *)
(* The pure routines are modelled as operators that compute what the Rust  *)
(* code computes; a call is one action that takes the state from           *)
(* pc = "call" (arguments chosen) to pc = "done" (return value, or the     *)
(* panic that ended the call).  Iteration over a std HashSet has no        *)
(* specified order, so every place where the code depends on that order    *)
(* is a nondeterministic choice.                                           *)
(*                                                                         *)
(* All columns belong to one table, so a Column is modelled by its name.   *)
(***************************************************************************)
EXTENDS Integers, Sequences, FiniteSets, TLC

(***************************************************************************)
(* Bounds of the model.                                                    *)
(***************************************************************************)
\* Integer literals that occur in statements are 1..MaxVal.
MaxVal == 2
\* WHERE trees of UPDATE/DELETE statements have at most MaxLeaves leaves.
MaxLeaves == 3
\* WHERE trees over the columns of a compound key alone have at most
\* MaxCompoundLeaves leaves.
MaxCompoundLeaves == 4
\* WHERE trees of SELECT statements have at most MaxSelectLeaves leaves.
MaxSelectLeaves == 3
\* An UPDATE has at most MaxSet SET entries.
MaxSet == 2
\* The WHERE tree of an UPDATE given to extract_update has at most
\* MaxWhereLeaves leaves.
MaxWhereLeaves == 2
\* An EXECUTE carries at most MaxParams parameter values.
MaxParams == 3
\* A CREATE TABLE given to get_primary_key has at most MaxFields columns,
\* at most MaxKeys key clauses, each over at most MaxKeyCols columns.
MaxFields == 3
MaxKeys == 1
MaxKeyCols == 2
\* A query text given to sanitize_query has at most MaxQueryLen characters.
MaxQueryLen == 4
\* The accept loop takes at most MaxConns connections.
MaxConns == 2
\* A connection resolves at most MaxSelects SELECT statements.
MaxSelects == 2

(***************************************************************************)
(* nom_sql's AST, as far as utils.rs matches on it.                        *)
(***************************************************************************)
\* Literal::Placeholder
Placeholder == [lit |-> "Placeholder", n |-> 0]

\* Literal::Integer(n)
Integer(n) == [lit |-> "Integer", n |-> n]

\* Literal::Null
Null == [lit |-> "Null", n |-> 0]

\* ConditionExpression::Base(ConditionBase::Field(c))
Field(c) == [ce |-> "Base", base |-> "Field", name |-> c]

\* ConditionExpression::Base(ConditionBase::Literal(l))
Literal(l) == [ce |-> "Base", base |-> "Literal", lit |-> l]

\* ConditionExpression::Base(ConditionBase::LiteralList(ls))
LiteralList(ls) == [ce |-> "Base", base |-> "LiteralList", list |-> ls]

\* ConditionExpression::ComparisonOp(ConditionTree { operator, left, right })
ComparisonOp(op, l, r) ==
    [ce |-> "ComparisonOp", operator |-> op, left |-> l, right |-> r]

\* ConditionExpression::LogicalOp(ConditionTree { operator, left, right })
LogicalOp(op, l, r) ==
    [ce |-> "LogicalOp", operator |-> op, left |-> l, right |-> r]

\* ConditionExpression::NegationOp(expr)
NegationOp(e) == [ce |-> "NegationOp", expr |-> e]

\* ConditionExpression::Bracketed(expr)
Bracketed(e) == [ce |-> "Bracketed", expr |-> e]

IsField(e) == e.ce = "Base" /\ e.base = "Field"

IsLiteral(e) == e.ce = "Base" /\ e.base = "Literal"

IsLiteralList(e) == e.ce = "Base" /\ e.base = "LiteralList"

\* DataType::from(&Literal) for the literals of the model: an integer literal
\* becomes DataType::Int, NULL becomes DataType::None.
DataTypeFrom(l) ==
    IF l.lit = "Integer" THEN [dt |-> "Int", n |-> l.n]
    ELSE [dt |-> "None", n |-> 0]

Range(s) == {s[i] : i \in 1..Len(s)}

\* All orders in which the elements of a finite set can be listed.
RECURSIVE Orderings(_)
Orderings(S) ==
    IF S = {} THEN {<<>>}
    ELSE UNION {{<<x>> \o rest : rest \in Orderings(S \ {x})} : x \in S}

\* The shapes of the binary trees with exactly k leaves: a leaf is <<>>, an
\* inner node the pair of its children's shapes.
RECURSIVE ShapesWithLeaves(_)
ShapesWithLeaves(k) ==
    IF k = 1 THEN {<<>>}
    ELSE UNION {{<<l, r>> : l \in ShapesWithLeaves(i), r \in ShapesWithLeaves(k - i)} :
                    i \in 1..(k - 1)}

RECURSIVE NumLeaves(_)
NumLeaves(shape) ==
    IF shape = <<>> THEN 1 ELSE NumLeaves(shape[1]) + NumLeaves(shape[2])

\* The tree of the given shape whose inner nodes carry the operators `ops`
\* (in pre-order) and whose leaves are `leaves` (left to right).
RECURSIVE BuildCond(_, _, _)
BuildCond(shape, ops, leaves) ==
    IF shape = <<>> THEN leaves[1]
    ELSE LET nl == NumLeaves(shape[1])
             nr == NumLeaves(shape[2])
         IN  LogicalOp(ops[1],
                       BuildCond(shape[1], SubSeq(ops, 2, nl), SubSeq(leaves, 1, nl)),
                       BuildCond(shape[2], SubSeq(ops, nl + 1, nl + nr - 1),
                                 SubSeq(leaves, nl + 1, nl + nr)))

(***************************************************************************)
(* do_flatten_conditional and flatten_conditional                          *)
(***************************************************************************)
\* One (column name, value) entry of a key under construction.
KeyEntry(c, v) == [name |-> c, value |-> v]

\* The two equality arms of do_flatten_conditional that bind a column:
\* Literal = Field and Field = Literal.
IsFieldLiteralEq(cond) ==
    /\ cond.ce = "ComparisonOp"
    /\ cond.operator = "Equal"
    /\ \/ IsLiteral(cond.left) /\ IsField(cond.right)
       \/ IsField(cond.left) /\ IsLiteral(cond.right)

LeafColumn(cond) ==
    IF IsField(cond.left) THEN cond.left.name ELSE cond.right.name

LeafLiteral(cond) ==
    IF IsField(cond.left) THEN cond.right.lit ELSE cond.left.lit

\* The arm `Literal = Literal if left == right`.
IsTautology(cond) ==
    /\ cond.ce = "ComparisonOp"
    /\ cond.operator = "Equal"
    /\ IsLiteral(cond.left) /\ IsLiteral(cond.right)
    /\ cond.left.lit = cond.right.lit

\* What one call of do_flatten_conditional leaves behind: whether it
\* returned true, the panic that ended it ("" when it returned), and the
\* working set.
Walk(valid, panic, flattened) ==
    [valid |-> valid, panic |-> panic, flattened |-> flattened]

\* The keys `find` may return: those with fewer entries than the primary key
\* and no entry for column c.  Which of them comes first is up to the
\* HashSet's iteration order.
WithSpace(flattened, pkey, c) ==
    {key \in flattened :
        /\ Len(key) < Len(pkey)
        /\ \A i \in 1..Len(key) : key[i].name # c}

\* FillSlot with the bug of starting over instead of accumulating: the new
\* key replaces the working set.
FillSlotStartsOver(flattened, pkey, c, value) ==
    {Walk(TRUE, "", {<<KeyEntry(c, value)>>})}

\* The body of the equality arm once the column is known to be a key column.
FillSlot(flattened, pkey, c, value) ==
    IF WithSpace(flattened, pkey, c) # {}
    THEN {Walk(TRUE, "", (flattened \ {key}) \cup {Append(key, KeyEntry(c, value))}) :
            key \in WithSpace(flattened, pkey, c)}
    ELSE {Walk(TRUE, "", flattened \cup {<<KeyEntry(c, value)>>})}

\* The validity test of the AND arm after both sides returned true.
AndValid(pre_count, count, flattened) ==
    pre_count = Cardinality(flattened) \/ count = Cardinality(flattened)

\* The set of ways do_flatten_conditional(cond, pkey, &mut flattened) can end.
RECURSIVE DoFlattenConditional(_, _, _)
DoFlattenConditional(cond, pkey, flattened) ==
    IF IsFieldLiteralEq(cond) THEN
        IF LeafColumn(cond) \notin Range(pkey)
        THEN {Walk(FALSE, "NonKeyPredicate", flattened)}
        ELSE FillSlot(flattened, pkey, LeafColumn(cond), DataTypeFrom(LeafLiteral(cond)))
    ELSE IF IsTautology(cond) THEN {Walk(TRUE, "", flattened)}
    ELSE IF cond.ce = "LogicalOp" /\ cond.operator = "And" THEN
        UNION {IF l.panic # "" \/ ~l.valid
               THEN {Walk(FALSE, l.panic, l.flattened)}
               ELSE {IF r.panic # ""
                     THEN Walk(FALSE, r.panic, r.flattened)
                     ELSE Walk(r.valid /\ AndValid(Cardinality(flattened),
                                                   Cardinality(l.flattened),
                                                   r.flattened),
                               "", r.flattened) :
                        r \in DoFlattenConditional(cond.right, pkey, l.flattened)} :
               l \in DoFlattenConditional(cond.left, pkey, flattened)}
    ELSE IF cond.ce = "LogicalOp" /\ cond.operator = "Or" THEN
        UNION {IF l.panic # "" \/ ~l.valid
               THEN {Walk(FALSE, l.panic, l.flattened)}
               ELSE DoFlattenConditional(cond.right, pkey, l.flattened) :
               l \in DoFlattenConditional(cond.left, pkey, flattened)}
    ELSE {Walk(FALSE, "", flattened)}

\* Return values of the modelled calls.
None == [tag |-> "None"]

Some(v) == [tag |-> "Some", val |-> v]

Panic(why) == [tag |-> "Panic", why |-> why]

Pending == [tag |-> "Pending"]

\* A routine that returns a plain value (no Option) has returned v.
Returned(v) == [tag |-> "Returned", val |-> v]

\* key.into_iter().map(|(_c, v)| v).collect()
KeyValues(key) == [i \in 1..Len(key) |-> key[i].value]

\* CollectKeys with the bug of dropping a partial key instead of panicking.
CollectKeysDropsPartial(w, pkey) ==
    IF w.panic # "" THEN {Panic(w.panic)}
    ELSE IF ~w.valid THEN {None}
    ELSE {Some([i \in 1..Len(o) |-> KeyValues(o[i])]) :
            o \in Orderings({key \in w.flattened : Len(key) = Len(pkey)})}

\* The second half of flatten_conditional, after the walk `w` has ended:
\* None, a panic, or Some(keys) with the keys in any order the HashSet may
\* yield them.
CollectKeys(w, pkey) ==
    IF w.panic # "" THEN {Panic(w.panic)}
    ELSE IF ~w.valid THEN {None}
    ELSE IF \E key \in w.flattened : Len(key) # Len(pkey)
         THEN {Panic("IncompleteCompoundKey")}
         ELSE {Some([i \in 1..Len(o) |-> KeyValues(o[i])]) : o \in Orderings(w.flattened)}

\* The set of ways flatten_conditional(cond, pkey) can end, each with the walk
\* that led to it.
FlattenConditional(cond, pkey) ==
    UNION {{[ret |-> r, walk |-> w] : r \in CollectKeys(w, pkey)} :
            w \in DoFlattenConditional(cond, pkey, {})}

(***************************************************************************)
(* get_parameter_columns                                                   *)
(***************************************************************************)
\* SqlQuery::Select(SelectStatement { where_clause, .. })
Select(where_clause) == [sql |-> "Select", where_clause |-> where_clause]

\* SqlQuery::Insert(InsertStatement { fields, data, .. })
Insert(fields, data) == [sql |-> "Insert", fields |-> fields, data |-> data]

\* SqlQuery::Update(UpdateStatement { fields, where_clause, .. })
Update(fields, where_clause) ==
    [sql |-> "Update", fields |-> fields, where_clause |-> where_clause]

\* SqlQuery::Delete(DeleteStatement { where_clause, .. })
Delete(where_clause) == [sql |-> "Delete", where_clause |-> where_clause]

\* What get_parameter_columns_recurse leaves behind: the panic that ended it
\* ("" when it returned) and the columns it returned.
Columns(panic, cols) == [panic |-> panic, cols |-> cols]

\* The arms `Field = Placeholder` and `Placeholder = Field`.
IsPlaceholderEq(cond) ==
    /\ cond.ce = "ComparisonOp"
    /\ cond.operator = "Equal"
    /\ \/ IsField(cond.left) /\ IsLiteral(cond.right) /\ cond.right.lit = Placeholder
       \/ IsLiteral(cond.left) /\ cond.left.lit = Placeholder /\ IsField(cond.right)

\* The arm `Field IN (?, ?, ...)`, every literal of the list a placeholder.
IsPlaceholderIn(cond) ==
    /\ cond.ce = "ComparisonOp"
    /\ cond.operator = "In"
    /\ IsField(cond.left) /\ IsLiteralList(cond.right)
    /\ \A i \in 1..Len(cond.right.list) : cond.right.list[i] = Placeholder

\* The arms `Field op Literal` and `Literal op Field`, any operator.
IsFieldLiteralCmp(cond) ==
    /\ cond.ce = "ComparisonOp"
    /\ \/ IsField(cond.left) /\ IsLiteral(cond.right)
       \/ IsLiteral(cond.left) /\ IsField(cond.right)

\* The arm `Field op Field`, any operator.
IsFieldFieldCmp(cond) ==
    cond.ce = "ComparisonOp" /\ IsField(cond.left) /\ IsField(cond.right)

RECURSIVE GetParameterColumnsRecurse(_)
GetParameterColumnsRecurse(cond) ==
    IF IsPlaceholderEq(cond) THEN Columns("", <<LeafColumn(cond)>>)
    ELSE IF IsPlaceholderIn(cond)
         THEN Columns("", [i \in 1..Len(cond.right.list) |-> cond.left.name])
    ELSE IF IsFieldLiteralCmp(cond) \/ IsFieldFieldCmp(cond) THEN Columns("", <<>>)
    ELSE IF cond.ce = "LogicalOp" /\ cond.operator \in {"And", "Or"} THEN
        LET l == GetParameterColumnsRecurse(cond.left)
            r == GetParameterColumnsRecurse(cond.right)
        IN  IF l.panic # "" THEN l
            ELSE IF r.panic # "" THEN r
            ELSE Columns("", l.cols \o r.cols)
    ELSE IF cond.ce \in {"NegationOp", "Bracketed"}
         THEN GetParameterColumnsRecurse(cond.expr)
    ELSE Columns("unimplemented", <<>>)

\* FieldValueExpression::Literal(LiteralExpression { value, alias })
LiteralExpression(value, alias) ==
    [fve |-> "Literal", value |-> value, alias |-> alias]

\* The pattern `LiteralExpression { value: Literal::Placeholder, alias: None }`
IsBarePlaceholder(fve) ==
    fve.fve = "Literal" /\ fve.value = Placeholder /\ fve.alias = None

\* The where_params of the Select and Update arms.
WhereParams(where_clause) ==
    IF where_clause.tag = "Some" THEN GetParameterColumnsRecurse(where_clause.val)
    ELSE Columns("", <<>>)

\* The Insert arm: the declared column of every position of the one row that
\* holds a placeholder.
InsertParams(query) ==
    IF Len(query.data) # 1 THEN Panic("assert_eq")
    ELSE LET row == query.data[1]
             at  == SelectSeq([i \in 1..Len(row) |-> i],
                              LAMBDA i : row[i] = Placeholder)
         IN  IF at = <<>> THEN Returned(<<>>)
             ELSE IF query.fields = None THEN Panic("unwrap")
             ELSE IF \E j \in 1..Len(at) : at[j] > Len(query.fields.val)
                  THEN Panic("index out of bounds")
             ELSE Returned([j \in 1..Len(at) |-> query.fields.val[at[j]]])

\* get_parameter_columns(query)
GetParameterColumns(query) ==
    IF query.sql = "Select" THEN
        LET w == WhereParams(query.where_clause)
        IN  IF w.panic # "" THEN Panic(w.panic) ELSE Returned(w.cols)
    ELSE IF query.sql = "Insert" THEN InsertParams(query)
    ELSE IF query.sql = "Update" THEN
        LET set == SelectSeq(query.fields, LAMBDA f : IsBarePlaceholder(f.fve))
            field_params == [i \in 1..Len(set) |-> set[i].col]
            w == WhereParams(query.where_clause)
        IN  IF w.panic # "" THEN Panic(w.panic)
            ELSE Returned(field_params \o w.cols)
    ELSE Panic("unimplemented")

(***************************************************************************)
(* get_primary_key                                                         *)
(***************************************************************************)
\* ColumnSpecification { column, constraints, .. }
ColumnSpecification(column, constraints) ==
    [column |-> column, constraints |-> constraints]

\* TableKey::PrimaryKey(cols)
PrimaryKey(cols) == [key |-> "PrimaryKey", cols |-> cols]

\* CreateTableStatement { fields, keys, .. }
CreateTable(fields, keys) == [fields |-> fields, keys |-> keys]

\* TableKey::UniqueKey(name, cols), one of the other kinds of key clause
UniqueKey(cols) == [key |-> "UniqueKey", cols |-> cols]

\* The filter with every kind of key clause taken for a PRIMARY KEY clause.
IsPrimaryKeyFieldAnyKey(schema, cs) ==
    \/ "PrimaryKey" \in cs.constraints
    \/ /\ schema.keys.tag = "Some"
       /\ \E k \in 1..Len(schema.keys.val) :
            cs.column \in Range(schema.keys.val[k].cols)

\* The filter of get_primary_key: the field carries the PRIMARY KEY
\* constraint, or a PRIMARY KEY clause of the table names its column.
IsPrimaryKeyField(schema, cs) ==
    \/ "PrimaryKey" \in cs.constraints
    \/ /\ schema.keys.tag = "Some"
       /\ \E k \in 1..Len(schema.keys.val) :
            /\ schema.keys.val[k].key = "PrimaryKey"
            /\ cs.column \in Range(schema.keys.val[k].cols)

\* get_primary_key(schema): the (index, column) pairs of the key fields, the
\* index counted from 0 as enumerate() counts.
GetPrimaryKey(schema) ==
    LET at == SelectSeq([i \in 1..Len(schema.fields) |-> i],
                        LAMBDA i : IsPrimaryKeyField(schema, schema.fields[i]))
    IN  [j \in 1..Len(at) |-> [idx |-> at[j] - 1, column |-> schema.fields[at[j]].column]]

(***************************************************************************)
(* extract_update_params_and_fields, walk_update_where and extract_update  *)
(***************************************************************************)
\* One (Column, FieldValueExpression) entry of UpdateStatement::fields.
SetEntry(col, fve) == [col |-> col, fve |-> fve]

\* ArithmeticBase::Column(c)
ArithmeticColumn(c) == [ab |-> "Column", name |-> c]

\* ArithmeticBase::Scalar(l)
ArithmeticScalar(l) == [ab |-> "Scalar", lit |-> l]

\* FieldValueExpression::Arithmetic(ArithmeticExpression { op, left, right, alias })
Arithmetic(op, left, right, alias) ==
    [fve |-> "Arithmetic", op |-> op, left |-> left, right |-> right, alias |-> alias]

\* Modification::Set(v)
Set(v) == [mod |-> "Set", value |-> v]

\* Modification::Apply(op, v)
Apply(op, v) == [mod |-> "Apply", op |-> op, value |-> v]

\* pv.value.to_datatype() for the integer parameter values of the model.
ToDataType(pv) == [dt |-> "Int", n |-> pv]

\* Vec::swap_remove(i): the element at i is replaced by the last one.
SwapRemove(s, i) ==
    IF i = Len(s) THEN SubSeq(s, 1, Len(s) - 1)
    ELSE [j \in 1..(Len(s) - 1) |-> IF j = i THEN s[Len(s)] ELSE s[j]]

\* q.fields.iter().position(|&(ref f, _)| f.name == column), 0 for None.
Position(fields, column) ==
    IF \E j \in 1..Len(fields) : fields[j].col = column
    THEN CHOOSE j \in 1..Len(fields) :
            /\ fields[j].col = column
            /\ \A k \in 1..(j - 1) : fields[k].col # column
    ELSE 0

\* The state of the loop of extract_update_params_and_fields: the SET entries
\* left in q.fields, the parameter iterator, the updates pushed so far and
\* the panic that ended the loop ("" while it runs).
Extraction(fields, params, updates, panic) ==
    [fields |-> fields, params |-> params, updates |-> updates, panic |-> panic]

\* ArithmeticModification with the bug of a copied arm: a subtraction is
\* pushed as an addition.
ArithmeticModificationAddsOnly(ae, column) ==
    IF ~(ae.left.ab = "Column" /\ ae.right.ab = "Scalar" /\ ae.alias = None)
    THEN Panic("unreachable")
    ELSE IF ae.left.name # column THEN Panic("assert_eq")
    ELSE IF ae.op \in {"Add", "Subtract"}
         THEN Returned(Apply("Add", DataTypeFrom(ae.right.lit)))
    ELSE Panic("unimplemented")

\* The Arithmetic arm: only `column = column +/- literal` is supported.
ArithmeticModification(ae, column) ==
    IF ~(ae.left.ab = "Column" /\ ae.right.ab = "Scalar" /\ ae.alias = None)
    THEN Panic("unreachable")
    ELSE IF ae.left.name # column THEN Panic("assert_eq")
    ELSE IF ae.op = "Add" THEN Returned(Apply("Add", DataTypeFrom(ae.right.lit)))
    ELSE IF ae.op = "Subtract" THEN Returned(Apply("Sub", DataTypeFrom(ae.right.lit)))
    ELSE Panic("unimplemented")

\* One iteration of the loop over schema.fields, for the field at index i
\* (counted from 0) with the given column.
ExtractField(st, i, column) ==
    LET sets == Position(st.fields, column)
    IN  IF st.panic # "" \/ sets = 0 THEN st
        ELSE
        LET fve  == st.fields[sets].fve
            rest == SwapRemove(st.fields, sets)
        IN  IF IsBarePlaceholder(fve) THEN
                IF st.params = None
                THEN Extraction(rest, st.params, st.updates,
                                "Found placeholder in ad-hoc query")
                ELSE IF st.params.val = <<>>
                THEN Extraction(rest, st.params, st.updates,
                                "Not enough parameter values given in EXECUTE")
                ELSE Extraction(rest, Some(Tail(st.params.val)),
                                Append(st.updates,
                                       <<i, Set(ToDataType(Head(st.params.val)))>>), "")
            ELSE IF fve.fve = "Literal" /\ fve.alias = None
            THEN Extraction(rest, st.params,
                            Append(st.updates, <<i, Set(DataTypeFrom(fve.value))>>), "")
            ELSE IF fve.fve = "Arithmetic" THEN
                LET m == ArithmeticModification(fve, column)
                IN  IF m.tag = "Panic"
                    THEN Extraction(rest, st.params, st.updates, m.why)
                    ELSE Extraction(rest, st.params, Append(st.updates, <<i, m.val>>), "")
            ELSE Extraction(rest, st.params, st.updates, "unreachable")

\* The loop of extract_update_params_and_fields over the first n schema fields.
RECURSIVE ExtractFields(_, _, _, _)
ExtractFields(fields, params, schema, n) ==
    IF n = 0 THEN Extraction(fields, params, <<>>, "")
    ELSE ExtractField(ExtractFields(fields, params, schema, n - 1),
                      n - 1, schema.fields[n].column)

\* extract_update_params_and_fields(q, params, schema): the state it leaves
\* behind, its updates being the return value.
ExtractUpdateParamsAndFields(fields, params, schema) ==
    ExtractFields(fields, params, schema, Len(schema.fields))

\* What walk_update_where leaves behind: the column-to-value map, the
\* parameter iterator and the panic that ended it ("" when it returned).
Walked(col2v, params, panic) == [col2v |-> col2v, params |-> params, panic |-> panic]

\* The arm `Field = Literal` of walk_update_where.
IsUpdateEq(expr) ==
    /\ expr.ce = "ComparisonOp"
    /\ expr.operator = "Equal"
    /\ IsField(expr.left) /\ IsLiteral(expr.right)

\* col2v.insert(c, v) followed by assert!(oldv.is_none()).
InsertNew(col2v, params, c, v) ==
    IF c \in DOMAIN col2v THEN Walked(col2v, params, "assert oldv.is_none()")
    ELSE Walked([x \in DOMAIN col2v \cup {c} |-> IF x = c THEN v ELSE col2v[x]],
                params, "")

\* walk_update_where(col2v, params, expr)
RECURSIVE WalkUpdateWhere(_, _, _)
WalkUpdateWhere(col2v, params, expr) ==
    IF IsUpdateEq(expr) THEN
        IF expr.right.lit = Placeholder THEN
            IF params = None
            THEN Walked(col2v, params, "Found placeholder in ad-hoc query")
            ELSE IF params.val = <<>>
            THEN Walked(col2v, params, "Not enough parameter values given in EXECUTE")
            ELSE InsertNew(col2v, Some(Tail(params.val)), expr.left.name,
                           ToDataType(Head(params.val)))
        ELSE InsertNew(col2v, params, expr.left.name, DataTypeFrom(expr.right.lit))
    ELSE IF expr.ce = "LogicalOp" /\ expr.operator = "And" THEN
        LET l == WalkUpdateWhere(col2v, params, expr.left)
        IN  IF l.panic # "" THEN l
            ELSE WalkUpdateWhere(l.col2v, l.params, expr.right)
    ELSE Walked(col2v, params, "Fancy high-brow UPDATEs are not supported")

\* extract_update(q, params, schema)
ExtractUpdate(q, params, schema) ==
    LET e    == ExtractUpdateParamsAndFields(q.fields, params, schema)
        pkey == GetPrimaryKey(schema)
    IN  IF e.panic # "" THEN Panic(e.panic)
        ELSE IF q.where_clause = None
        THEN Panic("UPDATE without WHERE is not supported")
        ELSE
        LET w == WalkUpdateWhere(<<>>, e.params, q.where_clause.val)
        IN  IF w.panic # "" THEN Panic(w.panic)
            ELSE IF \E j \in 1..Len(pkey) : pkey[j].column \notin DOMAIN w.col2v
            THEN Panic("unwrap")
            ELSE Returned([key |-> [j \in 1..Len(pkey) |-> w.col2v[pkey[j].column]],
                           updates |-> e.updates])

(***************************************************************************)
(* sanitize_query: a query text is a sequence of characters.               *)
(***************************************************************************)
\* The characters trim() removes, as far as the inputs have them.
Whitespace == {" ", "\n"}

\* The least and the greatest number of a non-empty set.
Least(S) == CHOOSE i \in S : \A j \in S : i <= j

Greatest(S) == CHOOSE i \in S : \A j \in S : j <= i

\* The positions where `*/` starts at or after position `from`.
BlockEnds(q, from) ==
    {j \in from..(Len(q) - 1) : q[j] = "*" /\ q[j + 1] = "/"}

\* COMMENTS[0], (?s)/\*.*\*/ replaced by "": the match starts at the first
\* `/*` that a `*/` follows and, `.*` being greedy and matching newlines,
\* runs to the last `*/` of the text.
ReplaceBlockComments(q) ==
    LET starts == {i \in 1..(Len(q) - 3) :
                      q[i] = "/" /\ q[i + 1] = "*" /\ BlockEnds(q, i + 2) # {}}
    IN  IF starts = {} THEN q
        ELSE SubSeq(q, 1, Least(starts) - 1)
             \o SubSeq(q, Greatest(BlockEnds(q, Least(starts) + 2)) + 2, Len(q))

\* The positions of the newlines at or after position `from`.
Newlines(q, from) == {k \in from..Len(q) : q[k] = "\n"}

\* COMMENTS[1], --.*\n replaced by "\n": every `--` up to the next newline.
RECURSIVE ReplaceLineComments(_)
ReplaceLineComments(q) ==
    LET starts == {i \in 1..(Len(q) - 2) :
                      q[i] = "-" /\ q[i + 1] = "-" /\ Newlines(q, i + 2) # {}}
    IN  IF starts = {} THEN q
        ELSE SubSeq(q, 1, Least(starts) - 1) \o <<"\n">>
             \o ReplaceLineComments(
                    SubSeq(q, Least(Newlines(q, Least(starts) + 2)) + 1, Len(q)))

\* COLLAPSE_SPACES, ` +` replaced by " ": a space after a space is dropped.
CollapseSpaces(q) ==
    LET keep == SelectSeq([i \in 1..Len(q) |-> i],
                          LAMBDA i : q[i] # " " \/ i = 1 \/ q[i - 1] # " ")
    IN  [j \in 1..Len(keep) |-> q[keep[j]]]

\* query.replace('"', "'")
ReplaceQuotes(q) == [i \in 1..Len(q) |-> IF q[i] = "\"" THEN "'" ELSE q[i]]

\* query.trim()
RECURSIVE Trim(_)
Trim(q) ==
    IF q = <<>> THEN q
    ELSE IF Head(q) \in Whitespace THEN Trim(Tail(q))
    ELSE IF q[Len(q)] \in Whitespace THEN Trim(SubSeq(q, 1, Len(q) - 1))
    ELSE q

\* sanitize_query(query): the loop over COMMENTS calls replace_all on the
\* query and drops what it returns, so the text that goes on is the query
\* itself.
SanitizeQuery(query) ==
    LET dropped == <<ReplaceBlockComments(query), ReplaceLineComments(query)>>
    IN  Trim(ReplaceQuotes(CollapseSpaces(query)))

(***************************************************************************)
(* Inputs of flatten_conditional                                           *)
(***************************************************************************)
Values == 1..MaxVal

\* `c = v` and `v = c`
EqLeaves(cols) ==
    {ComparisonOp("Equal", Field(c), Literal(Integer(v))) : c \in cols, v \in Values}
    \cup {ComparisonOp("Equal", Literal(Integer(v)), Field(c)) : c \in cols, v \in Values}

\* `1 = 1`
TautologyLeaf == ComparisonOp("Equal", Literal(Integer(1)), Literal(Integer(1)))

\* Leaves that fall through to the `_ => false` arm: `1 = 2` and `a < 1`.
UnsupportedLeaves ==
    {ComparisonOp("Equal", Literal(Integer(1)), Literal(Integer(2))),
     ComparisonOp("Less", Field("a"), Literal(Integer(1)))}

\* Single-column key {a}: equalities on a (either way round) and the tautology.
SingleKeyLeaves == EqLeaves({"a"}) \cup {TautologyLeaf}

\* Keys {a} and (a, b): equalities on a and b, the tautology and unsupported
\* leaves.
CompoundLeaves ==
    {ComparisonOp("Equal", Field(c), Literal(Integer(v))) : c \in {"a", "b"}, v \in Values}
    \cup {TautologyLeaf} \cup UnsupportedLeaves

PrimaryKeys == {<<"a">>, <<"a", "b">>}

(***************************************************************************)
(* Inputs of get_parameter_columns                                         *)
(***************************************************************************)
\* `a = ?`, `? = b`, `a IN (?, ?)`, `b = 1`, `a IS NULL`, `a = b`, `a > ?`
\* and `b IN (?, 1)`.
SelectLeaves ==
    {ComparisonOp("Equal", Field("a"), Literal(Placeholder)),
     ComparisonOp("Equal", Literal(Placeholder), Field("b")),
     ComparisonOp("In", Field("a"), LiteralList(<<Placeholder, Placeholder>>)),
     ComparisonOp("Equal", Field("b"), Literal(Integer(1))),
     ComparisonOp("Is", Field("a"), Literal(Null)),
     ComparisonOp("Equal", Field("a"), Field("b")),
     ComparisonOp("Greater", Field("a"), Literal(Placeholder)),
     ComparisonOp("In", Field("b"), LiteralList(<<Placeholder, Integer(1)>>))}

RECURSIVE NumNodes(_)
NumNodes(cond) ==
    IF cond.ce = "LogicalOp" THEN 1 + NumNodes(cond.left) + NumNodes(cond.right)
    ELSE 1

\* The tree with its n-th node (in pre-order) wrapped in a NOT or in brackets,
\* kind being "NegationOp" or "Bracketed".
RECURSIVE WrapAt(_, _, _)
WrapAt(cond, n, kind) ==
    IF n = 1 THEN [ce |-> kind, expr |-> cond]
    ELSE IF n - 1 <= NumNodes(cond.left)
         THEN LogicalOp(cond.operator, WrapAt(cond.left, n - 1, kind), cond.right)
         ELSE LogicalOp(cond.operator, cond.left,
                        WrapAt(cond.right, n - 1 - NumNodes(cond.left), kind))

\* INSERT statements over the columns (a, b): one row of two literals, with
\* or without a column list, and a statement of two rows.
InsertQueries ==
    {Insert(f, <<row>>) : f \in {None, Some(<<"b", "a">>)},
                          row \in [1..2 -> {Placeholder, Integer(1)}]}
    \cup {Insert(Some(<<"b", "a">>), <<<<Placeholder, Placeholder>>, <<Placeholder, Placeholder>>>>),
          Insert(Some(<<"a">>), <<<<Integer(1), Placeholder>>>>)}

(***************************************************************************)
(* Inputs of extract_update_params_and_fields and extract_update           *)
(***************************************************************************)
\* CREATE TABLE T (id int PRIMARY KEY, a int, b int)
SchemaInline ==
    CreateTable(<<ColumnSpecification("id", {"PrimaryKey"}),
                  ColumnSpecification("a", {}),
                  ColumnSpecification("b", {})>>, None)

\* CREATE TABLE T (b int, a int NOT NULL, id int, PRIMARY KEY (id))
SchemaKeyed ==
    CreateTable(<<ColumnSpecification("b", {}),
                  ColumnSpecification("a", {"NotNull"}),
                  ColumnSpecification("id", {})>>, Some(<<PrimaryKey(<<"id">>)>>))

Schemas == {SchemaInline, SchemaKeyed}

\* The parameter stream of an EXECUTE with n values (the k-th is 100 + k, so
\* no value equals a literal of the statement), or no stream for an ad-hoc
\* query.
ParamStreams == {None} \cup {Some([k \in 1..n |-> 100 + k]) : n \in 0..MaxParams}

\* Right-hand sides of a SET entry: `?`, `1`, an aliased literal,
\* `c + 2`, `c - 2`, `c * 2` for c in {a, b}, and `1 + a`.
FieldValues ==
    {LiteralExpression(Placeholder, None),
     LiteralExpression(Integer(1), None),
     LiteralExpression(Integer(1), Some("x")),
     Arithmetic("Add", ArithmeticScalar(Integer(1)), ArithmeticColumn("a"), None)}
    \cup {Arithmetic(op, ArithmeticColumn(c), ArithmeticScalar(Integer(2)), None) :
            op \in {"Add", "Subtract", "Multiply"}, c \in {"a", "b"}}

SetEntries == {SetEntry(c, v) : c \in {"a", "b"}, v \in FieldValues}

\* SET entries of the statements given to extract_update: `c = ?` and `c = 1`.
PlainSetEntries ==
    {SetEntry(c, v) : c \in {"a", "b"},
                      v \in {LiteralExpression(Placeholder, None),
                              LiteralExpression(Integer(1), None)}}

\* WHERE leaves of the statements given to extract_update: `id = ?`,
\* `id = 1`, `a = ?` and `a = 1`.
UpdateLeaves ==
    {ComparisonOp("Equal", Field(c), Literal(l)) :
        c \in {"id", "a"}, l \in {Placeholder, Integer(1)}}

(***************************************************************************)
(* State                                                                   *)
(***************************************************************************)
VARIABLES
    pc,     \* "call": the arguments are chosen; "done": the call has ended
    call,   \* the routine called
    args,   \* its arguments
    ret,    \* what it returned, or the panic that ended it
    walk,   \* flatten_conditional's local `flattened` and the walk's verdict
    query_cache,  \* run()'s HashMap<SelectStatement, String>, shared by all threads
    cache_lock,   \* the RwLock around it: the readers and the writer holding it
    conns,        \* the connection threads: where each is in resolving a SELECT
    views,        \* the backend: the statements registered as views, in order
    main          \* run() itself: where it is, and how many threads it has joined

vars == <<pc, call, args, ret, walk, query_cache, cache_lock, conns, views, main>>

shared == <<query_cache, cache_lock, conns, views, main>>

\* The walk before flatten_conditional has run: HashSet::new().
NoWalk == Walk(FALSE, "", {})

\* The connection threads run() may spawn.
Conns == 1..MaxConns

\* The map Arc::default() builds: no entry.
EmptyCache == [s \in {} |-> 0]

\* The lock Arc::default() builds: held by nobody (writer 0 is no thread).
Unlocked == [readers |-> {}, writer |-> 0]

\* A thread run() has not spawned yet.
Unspawned == [pc |-> "unspawned", stmt |-> None, view |-> None, served |-> 0]

\* run() before its accept loop: both maps empty, no thread spawned, no view
\* registered by this process.
NoConnections ==
    /\ query_cache = EmptyCache
    /\ cache_lock = Unlocked
    /\ conns = [t \in Conns |-> Unspawned]
    /\ views = <<>>
    /\ main = [pc |-> "accepting", joined |-> 0]

\* flatten_conditional(cond, pkey)
CallFlatten ==
    /\ pc = "call"
    /\ call = "flatten_conditional"
    /\ \E r \in FlattenConditional(args.cond, args.pkey) :
         ret' = r.ret /\ walk' = r.walk
    /\ pc' = "done"
    /\ UNCHANGED <<call, args>>
    /\ UNCHANGED shared

InitFlatSingle ==
    /\ pc = "call"
    /\ call = "flatten_conditional"
    /\ \E k \in 1..MaxLeaves :
         \E shape \in ShapesWithLeaves(k) :
           \E ops \in [1..(k - 1) -> {"And", "Or"}], leaves \in [1..k -> SingleKeyLeaves] :
             args = [cond |-> BuildCond(shape, ops, leaves), pkey |-> <<"a">>]
    /\ ret = Pending
    /\ walk = NoWalk
    /\ NoConnections

InitFlat ==
    /\ pc = "call"
    /\ call = "flatten_conditional"
    /\ \E k \in 1..MaxLeaves :
         \E shape \in ShapesWithLeaves(k), pk \in PrimaryKeys :
           \E ops \in [1..(k - 1) -> {"And", "Or"}], leaves \in [1..k -> CompoundLeaves] :
             args = [cond |-> BuildCond(shape, ops, leaves), pkey |-> pk]
    /\ ret = Pending
    /\ walk = NoWalk
    /\ NoConnections

\* get_parameter_columns(query)
CallGetParameterColumns ==
    /\ pc = "call"
    /\ call = "get_parameter_columns"
    /\ ret' = GetParameterColumns(args.query)
    /\ pc' = "done"
    /\ UNCHANGED <<call, args, walk>>
    /\ UNCHANGED shared

\* A SELECT whose WHERE tree has up to MaxSelectLeaves leaves and at most one
\* NOT or bracket node, a SELECT without WHERE, a DELETE, or an INSERT.
InitParams ==
    /\ pc = "call"
    /\ call = "get_parameter_columns"
    /\ \/ \E k \in 1..MaxSelectLeaves :
            \E shape \in ShapesWithLeaves(k) :
              \E ops \in [1..(k - 1) -> {"And", "Or"}], leaves \in [1..k -> SelectLeaves] :
                \E n \in 0..(2 * k - 1), kind \in {"NegationOp", "Bracketed"} :
                  LET cond == BuildCond(shape, ops, leaves)
                  IN  args = [query |-> Select(Some(IF n = 0 THEN cond
                                                    ELSE WrapAt(cond, n, kind)))]
       \/ args = [query |-> Select(None)]
       \/ args = [query |-> Delete(None)]
       \/ \E q \in InsertQueries : args = [query |-> q]
    /\ ret = Pending
    /\ walk = NoWalk
    /\ NoConnections

NextParams == CallGetParameterColumns

\* get_parameter_columns on SELECT and INSERT statements
SpecParams == InitParams /\ [][NextParams]_vars

\* extract_update_params_and_fields(&mut q, &mut params, schema): the return
\* value, with what is left in q.fields and in the parameter iterator.
CallExtractFields ==
    /\ pc = "call"
    /\ call = "extract_update_params_and_fields"
    /\ LET e == ExtractUpdateParamsAndFields(args.q.fields, args.params, args.schema)
       IN  ret' = IF e.panic # "" THEN Panic(e.panic)
                  ELSE [tag |-> "Returned", val |-> e.updates,
                        fields |-> e.fields, params |-> e.params]
    /\ pc' = "done"
    /\ UNCHANGED <<call, args, walk>>
    /\ UNCHANGED shared

InitFields ==
    /\ pc = "call"
    /\ call = "extract_update_params_and_fields"
    /\ \E n \in 0..MaxSet :
         \E fields \in [1..n -> SetEntries], p \in ParamStreams, schema \in Schemas :
           args = [q |-> Update(fields, None), params |-> p, schema |-> schema]
    /\ ret = Pending
    /\ walk = NoWalk
    /\ NoConnections

NextFields == CallExtractFields

\* extract_update_params_and_fields on every kind of SET entry
SpecFields == InitFields /\ [][NextFields]_vars

\* extract_update(q, params, schema)
CallExtractUpdate ==
    /\ pc = "call"
    /\ call = "extract_update"
    /\ ret' = ExtractUpdate(args.q, args.params, args.schema)
    /\ pc' = "done"
    /\ UNCHANGED <<call, args, walk>>
    /\ UNCHANGED shared

InitUpdate ==
    /\ pc = "call"
    /\ call = "extract_update"
    /\ \E n \in 0..MaxSet :
         \E fields \in [1..n -> PlainSetEntries], p \in ParamStreams, schema \in Schemas :
           \/ args = [q |-> Update(fields, None), params |-> p, schema |-> schema]
           \/ \E k \in 1..MaxWhereLeaves :
                \E shape \in ShapesWithLeaves(k) :
                  \E ops \in [1..(k - 1) -> {"And", "Or"}],
                     leaves \in [1..k -> UpdateLeaves] :
                    args = [q |-> Update(fields, Some(BuildCond(shape, ops, leaves))),
                            params |-> p, schema |-> schema]
    /\ ret = Pending
    /\ walk = NoWalk
    /\ NoConnections

NextUpdate == CallExtractUpdate

\* extract_update on UPDATE statements with plain SET entries
SpecUpdate == InitUpdate /\ [][NextUpdate]_vars

\* get_primary_key(schema)
CallGetPrimaryKey ==
    /\ pc = "call"
    /\ call = "get_primary_key"
    /\ ret' = Returned(GetPrimaryKey(args.schema))
    /\ pc' = "done"
    /\ UNCHANGED <<call, args, walk>>
    /\ UNCHANGED shared

\* The column names of the table.
ColumnNames == {"id", "a", "b"}

\* The sequences of 1..n different column names.
ColumnLists(n) ==
    UNION {Orderings(S) : S \in {T \in SUBSET ColumnNames :
                                    Cardinality(T) \in 1..n}}

\* The key clauses of a CREATE TABLE: PRIMARY KEY (..) and UNIQUE KEY (..).
TableKeys ==
    {PrimaryKey(cols) : cols \in ColumnLists(MaxKeyCols)}
    \cup {UniqueKey(cols) : cols \in ColumnLists(MaxKeyCols)}

\* A CREATE TABLE of up to MaxFields columns, each with or without the
\* PRIMARY KEY and NOT NULL constraints, and with up to MaxKeys key clauses.
InitPrimaryKey ==
    /\ pc = "call"
    /\ call = "get_primary_key"
    /\ \E names \in ColumnLists(MaxFields) :
         \E cons \in [1..Len(names) -> SUBSET {"PrimaryKey", "NotNull"}] :
           LET fields == [i \in 1..Len(names) |->
                            ColumnSpecification(names[i], cons[i])]
           IN  \/ args = [schema |-> CreateTable(fields, None)]
               \/ \E n \in 1..MaxKeys :
                    \E keys \in [1..n -> TableKeys] :
                      args = [schema |-> CreateTable(fields, Some(keys))]
    /\ ret = Pending
    /\ walk = NoWalk
    /\ NoConnections

NextPrimaryKey == CallGetPrimaryKey

\* get_primary_key on CREATE TABLE statements
SpecPrimaryKey == InitPrimaryKey /\ [][NextPrimaryKey]_vars

\* sanitize_query(query)
CallSanitizeQuery ==
    /\ pc = "call"
    /\ call = "sanitize_query"
    /\ ret' = Returned(SanitizeQuery(args.query))
    /\ pc' = "done"
    /\ UNCHANGED <<call, args, walk>>
    /\ UNCHANGED shared

\* The characters of the query texts.
Chars == {" ", "\n", "-", "/", "*", "\"", "a"}

\* A query text of up to MaxQueryLen characters.
InitSanitize ==
    /\ pc = "call"
    /\ call = "sanitize_query"
    /\ \E n \in 0..MaxQueryLen :
         \E q \in [1..n -> Chars] : args = [query |-> q]
    /\ ret = Pending
    /\ walk = NoWalk
    /\ NoConnections

NextSanitize == CallSanitizeQuery

\* sanitize_query on short query texts
SpecSanitize == InitSanitize /\ [][NextSanitize]_vars

NextFlat == CallFlatten

\* flatten_conditional on a single-column key
SpecFlatSingle == InitFlatSingle /\ [][NextFlat]_vars

\* flatten_conditional on keys {a} and (a, b)
SpecFlat == InitFlat /\ [][NextFlat]_vars

\* A WHERE tree of up to MaxCompoundLeaves equalities on the columns of the
\* key (a, b).
InitFlatCompound ==
    /\ pc = "call"
    /\ call = "flatten_conditional"
    /\ \E k \in 1..MaxCompoundLeaves :
         \E shape \in ShapesWithLeaves(k) :
           \E ops \in [1..(k - 1) -> {"And", "Or"}],
              leaves \in [1..k -> {ComparisonOp("Equal", Field(c), Literal(Integer(v))) :
                                     c \in {"a", "b"}, v \in Values}] :
             args = [cond |-> BuildCond(shape, ops, leaves), pkey |-> <<"a", "b">>]
    /\ ret = Pending
    /\ walk = NoWalk
    /\ NoConnections

\* flatten_conditional on the compound key (a, b)
SpecFlatCompound == InitFlatCompound /\ [][NextFlat]_vars

\* The ways the thread body can end.
Ended == {"closed", "reset", "panicked"}

\* The process has ended: run() has returned to main(), or has panicked.
ProcessExited == main.pc \in {"returned", "panicked"}

(***************************************************************************)
(* The shared query cache: run() builds one map behind one reader/writer   *)
(* lock and hands a clone of the Arc to the backend of every connection    *)
(* thread.  The steps a connection takes to resolve a SELECT to a view are  *)
(* modelled from the written description of the Query Canonicalizer and of  *)
(* the locking discipline: look the statement up under the read lock,       *)
(* release it, register a view with the backend, store the view under the   *)
(* write lock.                                                              *)
(***************************************************************************)
\* The SELECT statements the clients send: two that differ in structure.
CachedSelects ==
    {Select(None),
     Select(Some(ComparisonOp("Equal", Field("a"), Literal(Placeholder))))}

\* The threads run() has spawned.
Spawned == {t \in Conns : conns[t].pc # "unspawned"}

\* The map with `stmt` stored under `view`: HashMap::insert.
CacheInsert(cache, stmt, view) ==
    [s \in DOMAIN cache \cup {stmt} |-> IF s = stmt THEN view ELSE cache[s]]

\* One turn of the accept loop: thread conn-i is spawned with clones of the
\* shared maps; threads are numbered in the order they are accepted.
Accept(t) ==
    /\ main.pc = "accepting"
    /\ conns[t].pc = "unspawned"
    /\ t = Cardinality(Spawned) + 1
    /\ conns' = [conns EXCEPT ![t].pc = "idle"]
    /\ UNCHANGED <<pc, call, args, ret, walk, query_cache, cache_lock, views, main>>

\* A SELECT arrives on connection t; statements of one connection do not
\* overlap.
OnSelect(t, stmt) ==
    /\ ~ProcessExited
    /\ conns[t].pc = "idle"
    /\ conns[t].served < MaxSelects
    /\ conns' = [conns EXCEPT ![t] = [pc |-> "lookup", stmt |-> Some(stmt),
                                      view |-> None, served |-> @.served + 1]]
    /\ UNCHANGED <<pc, call, args, ret, walk, query_cache, cache_lock, views, main>>

\* The thread takes the shared lock: possible while no writer holds it.
ReadLock(t) ==
    /\ ~ProcessExited
    /\ conns[t].pc = "lookup"
    /\ cache_lock.writer = 0
    /\ cache_lock' = [cache_lock EXCEPT !.readers = @ \cup {t}]
    /\ conns' = [conns EXCEPT ![t].pc = "reading"]
    /\ UNCHANGED <<pc, call, args, ret, walk, query_cache, views, main>>

\* The lookup under the shared lock, and the lock's release: a hit resolves
\* the statement, a miss leaves the thread about to create the view.
ReadUnlock(t) ==
    /\ ~ProcessExited
    /\ conns[t].pc = "reading"
    /\ cache_lock' = [cache_lock EXCEPT !.readers = @ \ {t}]
    /\ LET stmt == conns[t].stmt.val
       IN  conns' = IF stmt \in DOMAIN query_cache
                    THEN [conns EXCEPT ![t].pc = "idle",
                                       ![t].view = Some(query_cache[stmt])]
                    ELSE [conns EXCEPT ![t].pc = "absent"]
    /\ UNCHANGED <<pc, call, args, ret, walk, query_cache, views, main>>

\* The backend call that registers the statement as a new view; the view
\* identifier is the number of the registration.
RegisterView(t) ==
    /\ ~ProcessExited
    /\ conns[t].pc = "absent"
    /\ views' = Append(views, conns[t].stmt.val)
    /\ conns' = [conns EXCEPT ![t].pc = "created",
                              ![t].view = Some(Len(views) + 1)]
    /\ UNCHANGED <<pc, call, args, ret, walk, query_cache, cache_lock, main>>

\* The thread takes the exclusive lock: possible while nobody holds it.
WriteLock(t) ==
    /\ ~ProcessExited
    /\ conns[t].pc = "created"
    /\ cache_lock = Unlocked
    /\ cache_lock' = [cache_lock EXCEPT !.writer = t]
    /\ conns' = [conns EXCEPT ![t].pc = "writing"]
    /\ UNCHANGED <<pc, call, args, ret, walk, query_cache, views, main>>

\* The insert under the exclusive lock, and the lock's release.
WriteUnlock(t) ==
    /\ ~ProcessExited
    /\ conns[t].pc = "writing"
    /\ query_cache' = CacheInsert(query_cache, conns[t].stmt.val, conns[t].view.val)
    /\ cache_lock' = Unlocked
    /\ conns' = [conns EXCEPT ![t].pc = "idle"]
    /\ UNCHANGED <<pc, call, args, ret, walk, views, main>>

\* run() after it has built the shared maps; no routine of utils.rs is
\* being called.
InitCache ==
    /\ pc = "idle"
    /\ call = ""
    /\ args = <<>>
    /\ ret = Pending
    /\ walk = NoWalk
    /\ NoConnections

NextCache ==
    \E t \in Conns :
        \/ Accept(t)
        \/ \E stmt \in CachedSelects : OnSelect(t, stmt)
        \/ ReadLock(t)
        \/ ReadUnlock(t)
        \/ RegisterView(t)
        \/ WriteLock(t)
        \/ WriteUnlock(t)

\* connection threads resolving SELECT statements through the shared cache
SpecCache == InitCache /\ [][NextCache]_vars

(***************************************************************************)
(* run(): the accept loop, the ways a connection thread ends, and the join *)
(* loop.  A panic unwinds the thread it happens in (the default of the     *)
(* build); the process ends when run() returns to main() or panics, and    *)
(* no thread takes a step after that.                                      *)
(***************************************************************************)
\* MysqlIntermediary::run_on returns Ok: the client has closed the
\* connection, and the thread ends.
Disconnect(t) ==
    /\ ~ProcessExited
    /\ conns[t].pc = "idle"
    /\ conns' = [conns EXCEPT ![t].pc = "closed"]
    /\ UNCHANGED <<pc, call, args, ret, walk, query_cache, cache_lock, views, main>>

\* run_on returns Err(ConnectionReset) or Err(BrokenPipe): the match arm is
\* empty, and the thread ends.
ConnectionLost(t) ==
    /\ ~ProcessExited
    /\ conns[t].pc = "idle"
    /\ conns' = [conns EXCEPT ![t].pc = "reset"]
    /\ UNCHANGED <<pc, call, args, ret, walk, query_cache, cache_lock, views, main>>

\* run_on returns any other Err: panic!("{:?}", e) ends the thread.
IoError(t) ==
    /\ ~ProcessExited
    /\ conns[t].pc = "idle"
    /\ conns' = [conns EXCEPT ![t].pc = "panicked"]
    /\ UNCHANGED <<pc, call, args, ret, walk, query_cache, cache_lock, views, main>>

\* The accept loop ends: ctrl-c has arrived (or the listener has failed),
\* so `while let Ok((Some(s), l))` no longer matches.
Shutdown ==
    /\ main.pc = "accepting"
    /\ main' = [main EXCEPT !.pc = "joining"]
    /\ UNCHANGED <<pc, call, args, ret, walk, query_cache, cache_lock, conns, views>>

\* One turn of the join loop: t.join() waits for the next thread, in the
\* order of spawning, to end; on a thread that panicked join() gives Err,
\* the downcast of the panic message to io::Error fails and its unwrap()
\* panics in run().
Join ==
    /\ main.pc = "joining"
    /\ main.joined < Cardinality(Spawned)
    /\ conns[main.joined + 1].pc \in Ended
    /\ main' = IF conns[main.joined + 1].pc = "panicked"
               THEN [main EXCEPT !.pc = "panicked"]
               ELSE [main EXCEPT !.joined = @ + 1]
    /\ UNCHANGED <<pc, call, args, ret, walk, query_cache, cache_lock, conns, views>>

\* Every thread is joined: run() returns.
Return ==
    /\ main.pc = "joining"
    /\ main.joined = Cardinality(Spawned)
    /\ main' = [main EXCEPT !.pc = "returned"]
    /\ UNCHANGED <<pc, call, args, ret, walk, query_cache, cache_lock, conns, views>>

NextRun ==
    \/ NextCache
    \/ \E t \in Conns : Disconnect(t) \/ ConnectionLost(t) \/ IoError(t)
    \/ Shutdown
    \/ Join
    \/ Return

\* run() from the accept loop to its return
SpecRun == InitCache /\ [][NextRun]_vars

\* The registrations the backend has received for the statement.
Registrations(stmt) == {i \in 1..Len(views) : views[i] = stmt}

\* C6: over any interleaving of connections, the backend receives at most
\* one register_view call per distinct statement, and two connections that
\* have resolved the same statement hold the same view identifier.
C6_OneRegistrationPerStatement ==
    /\ \A stmt \in CachedSelects : Cardinality(Registrations(stmt)) <= 1
    /\ \A t, u \in Conns :
         (/\ conns[t].pc = "idle" /\ conns[u].pc = "idle"
          /\ conns[t].view # None /\ conns[u].view # None
          /\ conns[t].stmt = conns[u].stmt)
            => conns[t].view = conns[u].view

(***************************************************************************)
(* Properties of flatten_conditional                                       *)
(***************************************************************************)
FlattenDone == pc = "done" /\ call = "flatten_conditional"

\* The leaves of a WHERE tree, as a set.
RECURSIVE LeavesOf(_)
LeavesOf(cond) ==
    IF cond.ce = "LogicalOp" THEN LeavesOf(cond.left) \cup LeavesOf(cond.right)
    ELSE {cond}

\* The inner nodes of a WHERE tree, as a set.
RECURSIVE NodesOf(_)
NodesOf(cond) ==
    IF cond.ce = "LogicalOp"
    THEN {cond} \cup NodesOf(cond.left) \cup NodesOf(cond.right)
    ELSE {}

\* The tree has an equality leaf on a column outside the primary key.
HasNonKeyLeaf(cond, pkey) ==
    \E leaf \in LeavesOf(cond) :
        IsFieldLiteralEq(leaf) /\ LeafColumn(leaf) \notin Range(pkey)

\* C1: whenever the WHERE tree holds an equality leaf on a column outside the
\* primary key, wherever it sits, flatten_conditional ends in the
\* non-key-predicate panic (not in None, not in a key set).
C1_NonKeyLeafAlwaysPanics ==
    (FlattenDone /\ HasNonKeyLeaf(args.cond, args.pkey))
        => ret = Panic("NonKeyPredicate")

\* The tree is built only from OR nodes over equality leaves on column c.
OrOfEqualitiesOn(cond, c) ==
    /\ \A node \in NodesOf(cond) : node.operator = "Or"
    /\ \A leaf \in LeavesOf(cond) : IsFieldLiteralEq(leaf) /\ LeafColumn(leaf) = c

\* The integers the equality leaves of the tree compare their column with.
LeafIntegers(cond) ==
    {LeafLiteral(leaf).n : leaf \in {l \in LeavesOf(cond) : IsFieldLiteralEq(l)}}

\* C2: for the key {a}, an OR tree over equalities `a = v` (either way round)
\* returns Some(S), S holding one one-element tuple per distinct value v of
\* the tree and nothing else; a repeated value gives one tuple.
C2_OrYieldsDistinctValues ==
    (FlattenDone /\ args.pkey = <<"a">> /\ OrOfEqualitiesOn(args.cond, "a"))
        => /\ ret.tag = "Some"
           /\ Range(ret.val) = {<<[dt |-> "Int", n |-> v]>> : v \in LeafIntegers(args.cond)}
           /\ Len(ret.val) = Cardinality(LeafIntegers(args.cond))

\* An OR tree of three leaves, one value repeated, has returned two tuples.
C2_Witness ==
    /\ FlattenDone /\ args.pkey = <<"a">> /\ OrOfEqualitiesOn(args.cond, "a")
    /\ Cardinality(NodesOf(args.cond)) = 2
    /\ \E leaf \in LeavesOf(args.cond) : IsLiteral(leaf.left)
    /\ LeafIntegers(args.cond) = {1, 2}
    /\ ret.tag = "Some" /\ Len(ret.val) = 2

\* The tree has an AND node whose operands are equalities binding column c to
\* two different values.
HasConflictingAnd(cond, c) ==
    \E node \in NodesOf(cond) :
        /\ node.operator = "And"
        /\ IsFieldLiteralEq(node.left) /\ IsFieldLiteralEq(node.right)
        /\ LeafColumn(node.left) = c /\ LeafColumn(node.right) = c
        /\ LeafLiteral(node.left) # LeafLiteral(node.right)

\* C3: for the key {a}, a tree of AND/OR nodes over equalities on a that holds
\* an AND of `a = v1` and `a = v2` with v1 # v2 gives None, wherever the AND
\* sits and whatever was accumulated before it.
C3_ConflictingAndIsNone ==
    (FlattenDone /\ args.pkey = <<"a">> /\ HasConflictingAnd(args.cond, "a"))
        => ret = None

\* C4: a returned key set holds every key of the walk, each with as many
\* values as the primary key has columns and one entry per key column; a
\* valid walk that leaves a shorter key ends in the incomplete-key panic.
C4_KeysAreComplete ==
    FlattenDone =>
        /\ ret.tag = "Some" =>
            /\ \A i \in 1..Len(ret.val) : Len(ret.val[i]) = Len(args.pkey)
            /\ Range(ret.val) = {KeyValues(key) : key \in walk.flattened}
            /\ \A key \in walk.flattened :
                 /\ Len(key) = Len(args.pkey)
                 /\ \A c \in Range(args.pkey) :
                      Cardinality({i \in 1..Len(key) : key[i].name = c}) = 1
        /\ (walk.valid /\ walk.panic = ""
                /\ \E key \in walk.flattened : Len(key) < Len(args.pkey))
            => ret = Panic("IncompleteCompoundKey")

\* A compound key has been returned in full.
C4_Witness ==
    /\ FlattenDone /\ args.pkey = <<"a", "b">>
    /\ ret.tag = "Some" /\ Len(ret.val) = 1 /\ Len(ret.val[1]) = 2

\* C5: every returned tuple lists its values in primary-key order: its j-th
\* value is the one the walk bound to the j-th key column.
C5_TuplesInKeyOrder ==
    (FlattenDone /\ ret.tag = "Some") =>
        \A i \in 1..Len(ret.val) :
            \E key \in walk.flattened :
                \A j \in 1..Len(args.pkey) :
                    \E e \in Range(key) :
                        e.name = args.pkey[j] /\ e.value = ret.val[i][j]

\* The results flatten_conditional can give on a tree, their tuples taken as
\* a set.
Outcomes(cond, pkey) ==
    {IF r.ret.tag = "Some" THEN Some(Range(r.ret.val)) ELSE r.ret :
        r \in FlattenConditional(cond, pkey)}

\* C13: when flatten_conditional returns Some(S) on a tree X, it returns
\* Some(S) again on `X AND 1 = 1` and on `1 = 1 AND X`.
C13_TautologyIsNeutral ==
    (/\ FlattenDone
     /\ args.cond.ce = "LogicalOp" /\ args.cond.operator = "And"
     /\ TautologyLeaf \in {args.cond.left, args.cond.right})
        => LET X == IF args.cond.right = TautologyLeaf THEN args.cond.left
                    ELSE args.cond.right
           IN  (\A o \in Outcomes(X, args.pkey) : o.tag = "Some")
                  => /\ ret.tag = "Some"
                     /\ Some(Range(ret.val)) \in Outcomes(X, args.pkey)

\* The WHERE tree under ordinary boolean semantics, on a row whose column a
\* holds v (every leaf of the tree is an equality on a).
RECURSIVE Holds(_, _)
Holds(cond, v) ==
    IF cond.ce = "LogicalOp"
    THEN IF cond.operator = "And"
         THEN Holds(cond.left, v) /\ Holds(cond.right, v)
         ELSE Holds(cond.left, v) \/ Holds(cond.right, v)
    ELSE LeafLiteral(cond).n = v

\* C16: for the key {a} and a tree of AND/OR nodes over equalities `a = v`,
\* a result Some(S) holds exactly the values of a for which the tree is
\* true (a value no leaf names makes every leaf, and so the tree, false).
C16_KeysAreTheSatisfyingValues ==
    (/\ FlattenDone /\ args.pkey = <<"a">>
     /\ \A leaf \in LeavesOf(args.cond) :
          IsFieldLiteralEq(leaf) /\ LeafColumn(leaf) = "a"
     /\ ret.tag = "Some")
        => {t[1].n : t \in Range(ret.val)}
             = {v \in LeafIntegers(args.cond) : Holds(args.cond, v)}

\* C17: the outcome of flatten_conditional (None, a panic, or the set of key
\* tuples) is the only one the call can have on its arguments, whichever
\* partial tuple the HashSet yields first.
C17_OutcomeIsDetermined ==
    FlattenDone =>
        \A o \in Outcomes(args.cond, args.pkey) :
            o = (IF ret.tag = "Some" THEN Some(Range(ret.val)) ELSE ret)

(***************************************************************************)
(* Properties of get_parameter_columns                                     *)
(***************************************************************************)
ParamsDone == pc = "done" /\ call = "get_parameter_columns"

\* For each placeholder of a WHERE tree, read left to right, the field it is
\* compared with.
RECURSIVE PlaceholderFields(_)
PlaceholderFields(cond) ==
    IF cond.ce = "LogicalOp"
    THEN PlaceholderFields(cond.left) \o PlaceholderFields(cond.right)
    ELSE IF cond.ce \in {"NegationOp", "Bracketed"} THEN PlaceholderFields(cond.expr)
    ELSE IF cond.ce # "ComparisonOp" THEN <<>>
    ELSE IF IsLiteral(cond.left) /\ cond.left.lit = Placeholder /\ IsField(cond.right)
         THEN <<cond.right.name>>
    ELSE IF IsField(cond.left) /\ IsLiteral(cond.right) /\ cond.right.lit = Placeholder
         THEN <<cond.left.name>>
    ELSE IF IsField(cond.left) /\ IsLiteralList(cond.right)
         THEN [i \in 1..Len(SelectSeq(cond.right.list, LAMBDA l : l = Placeholder))
                 |-> cond.left.name]
    ELSE <<>>

\* C7: for a SELECT, get_parameter_columns returns one column per placeholder
\* of the WHERE tree, in left-to-right order, each the field the placeholder
\* is compared with; the result is as long as the tree has placeholders.
C7_OneColumnPerPlaceholder ==
    (ParamsDone /\ args.query.sql = "Select" /\ ret.tag = "Returned")
        => ret.val = (IF args.query.where_clause = None THEN <<>>
                      ELSE PlaceholderFields(args.query.where_clause.val))

(***************************************************************************)
(* Properties of extract_update_params_and_fields and extract_update       *)
(***************************************************************************)
UpdateDone == pc = "done" /\ call = "extract_update"

\* The column of the schema field with index i (counted from 0).
SchemaColumn(schema, i) == schema.fields[i + 1].column

\* The columns extract_update has bound the k-th parameter value to: those
\* whose update is Set(that value) and the key columns whose key value it is.
BoundColumns(k) ==
    LET v == [dt |-> "Int", n |-> args.params.val[k]]
        pkey == GetPrimaryKey(args.schema)
    IN  {SchemaColumn(args.schema, ret.val.updates[j][1]) :
            j \in {j \in 1..Len(ret.val.updates) :
                     ret.val.updates[j][2] = [mod |-> "Set", value |-> v]}}
        \cup {pkey[j].column : j \in {j \in 1..Len(pkey) : ret.val.key[j] = v}}

\* The SET clause assigns no column twice.
SetColumnsDistinct(fields) ==
    \A x, y \in 1..Len(fields) : fields[x].col = fields[y].col => x = y

\* C8: the k-th value of the parameter stream is bound by extract_update to
\* the column get_parameter_columns reports at position k, whatever the order
\* of the SET clause relative to the schema (stated for the SET clauses that
\* assign each column once, the orderings the claim is about).
C8_BindsParameterToReportedColumn ==
    (UpdateDone /\ ret.tag = "Returned" /\ args.params # None
        /\ SetColumnsDistinct(args.q.fields)) =>
        LET reported == GetParameterColumns(args.q)
        IN  /\ reported.tag = "Returned"
            /\ \A k \in 1..Len(args.params.val) :
                 \A c \in BoundColumns(k) :
                    k <= Len(reported.val) /\ reported.val[k] = c

FieldsDone == pc = "done" /\ call = "extract_update_params_and_fields"

\* The updates that took their value from the parameter stream.
IsParamSet(m) ==
    /\ args.params # None
    /\ \E n \in 1..Len(args.params.val) :
         m = [mod |-> "Set", value |-> [dt |-> "Int", n |-> args.params.val[n]]]

\* The modification the claim gives for the SET entry e, n being the number
\* of parameter values consumed before it; no modification matches another
\* right-hand side.
IsModificationOf(m, e, n) ==
    \/ /\ e.fve.fve = "Literal" /\ e.fve.alias = None /\ e.fve.value = Placeholder
       /\ args.params # None /\ n < Len(args.params.val)
       /\ m = [mod |-> "Set", value |-> [dt |-> "Int", n |-> args.params.val[n + 1]]]
    \/ /\ e.fve.fve = "Literal" /\ e.fve.alias = None /\ e.fve.value.lit = "Integer"
       /\ m = [mod |-> "Set", value |-> [dt |-> "Int", n |-> e.fve.value.n]]
    \/ /\ e.fve.fve = "Arithmetic" /\ e.fve.alias = None
       /\ e.fve.left = [ab |-> "Column", name |-> e.col]
       /\ e.fve.right.ab = "Scalar"
       /\ \/ e.fve.op = "Add"
             /\ m = [mod |-> "Apply", op |-> "Add",
                     value |-> [dt |-> "Int", n |-> e.fve.right.lit.n]]
          \/ e.fve.op = "Subtract"
             /\ m = [mod |-> "Apply", op |-> "Sub",
                     value |-> [dt |-> "Int", n |-> e.fve.right.lit.n]]

\* The right-hand sides the claim gives a modification for.
IsSupportedEntry(e) ==
    \/ e.fve.fve = "Literal" /\ e.fve.alias = None
    \/ /\ e.fve.fve = "Arithmetic" /\ e.fve.alias = None
       /\ e.fve.left = [ab |-> "Column", name |-> e.col]
       /\ e.fve.right.ab = "Scalar"
       /\ e.fve.op \in {"Add", "Subtract"}

\* C9: extract_update_params_and_fields returns its pairs in strictly
\* ascending field index, one for each schema field that has a SET entry and
\* none for the others; the pair of a field is Set(next parameter value) for
\* a bare placeholder, Set(literal) for a literal, Apply(Add/Sub, k) for
\* `col = col +/- k` on that column, and no other right-hand side yields a
\* pair.  It returns whenever every right-hand side is one of these and the
\* stream holds a value for every placeholder.
C9_PairsInSchemaOrder ==
    /\ (FieldsDone
          /\ \A x \in 1..Len(args.q.fields) : IsSupportedEntry(args.q.fields[x])
          /\ args.params # None
          /\ Len(SelectSeq(args.q.fields, LAMBDA e : IsBarePlaceholder(e.fve)))
                <= Len(args.params.val))
        => ret.tag = "Returned"
    /\ (FieldsDone /\ ret.tag = "Returned") =>
        LET U == ret.val
            F == args.q.fields
            S == args.schema
        IN  /\ \A j, k \in 1..Len(U) : j < k => U[j][1] < U[k][1]
            /\ {U[j][1] : j \in 1..Len(U)}
                 = {i \in 0..(Len(S.fields) - 1) :
                        \E x \in 1..Len(F) : F[x].col = SchemaColumn(S, i)}
            /\ \A j \in 1..Len(U) :
                 \E x \in 1..Len(F) :
                    /\ F[x].col = SchemaColumn(S, U[j][1])
                    /\ IsModificationOf(U[j][2], F[x],
                            Cardinality({i \in 1..(j - 1) : IsParamSet(U[i][2])}))

\* A SET clause written against the schema order has been extracted: `b = ?`
\* before an arithmetic update of a, for a schema that declares a before b.
C9_Witness ==
    /\ FieldsDone /\ ret.tag = "Returned"
    /\ args.schema = SchemaInline
    /\ Len(args.q.fields) = 2
    /\ args.q.fields[1] = SetEntry("b", LiteralExpression(Placeholder, None))
    /\ args.q.fields[2].col = "a" /\ args.q.fields[2].fve.fve = "Arithmetic"
    /\ args.q.fields[2].fve.op = "Subtract"
    /\ Len(ret.val) = 2

\* C10: extract_update does not return for an UPDATE whose WHERE clause has a
\* predicate on a column outside the primary key.
C10_NonKeyWhereIsFatal ==
    (UpdateDone /\ args.q.where_clause # None
        /\ \E leaf \in LeavesOf(args.q.where_clause.val) :
             /\ leaf.ce = "ComparisonOp"
             /\ IsField(leaf.left)
             /\ \A j \in 1..Len(GetPrimaryKey(args.schema)) :
                  GetPrimaryKey(args.schema)[j].column # leaf.left.name)
        => ret.tag = "Panic"


\* The placeholders of an UPDATE: its bare `?` SET entries and the
\* placeholders of its WHERE tree.
PlaceholderCount(q) ==
    Len(SelectSeq(q.fields, LAMBDA e : IsBarePlaceholder(e.fve)))
    + (IF q.where_clause = None THEN 0
       ELSE Len(PlaceholderFields(q.where_clause.val)))

\* The values the parameter stream holds (an ad-hoc query has none).
ValueCount(params) == IF params = None THEN 0 ELSE Len(params.val)

\* C11: extract_update returns only when the parameter stream holds exactly
\* as many values as the statement has placeholders: fewer values are fatal
\* and so are more (stated for SET clauses that assign each column once, so
\* that every placeholder of the statement is met).
C11_PlaceholdersMatchValues ==
    (UpdateDone /\ SetColumnsDistinct(args.q.fields) /\ ret.tag = "Returned")
        => PlaceholderCount(args.q) = ValueCount(args.params)


(***************************************************************************)
(* Properties of get_primary_key                                           *)
(***************************************************************************)
PrimaryKeyDone == pc = "done" /\ call = "get_primary_key"

\* The columns a PRIMARY KEY clause of the table names.
ClauseColumns(schema) ==
    IF schema.keys = None THEN {}
    ELSE UNION {Range(schema.keys.val[k].cols) :
                  k \in {k \in 1..Len(schema.keys.val) :
                           schema.keys.val[k].key = "PrimaryKey"}}

\* The positions (from 1) of the fields declared part of the primary key,
\* inline or in a PRIMARY KEY clause.
DeclaredKeyFields(schema) ==
    {i \in 1..Len(schema.fields) :
        \/ "PrimaryKey" \in schema.fields[i].constraints
        \/ schema.fields[i].column \in ClauseColumns(schema)}

\* C12: get_primary_key returns, in ascending field index, exactly the
\* (index, column) pairs of the fields declared part of the primary key
\* inline or in a PRIMARY KEY clause: each once, in schema order, and none
\* when the schema declares no primary key.
C12_KeyFieldsInSchemaOrder ==
    PrimaryKeyDone =>
        LET K == ret.val
            S == args.schema
        IN  /\ Len(K) = Cardinality(DeclaredKeyFields(S))
            /\ \A j \in 1..Len(K) :
                 /\ K[j].idx + 1 \in DeclaredKeyFields(S)
                 /\ K[j].column = S.fields[K[j].idx + 1].column
            /\ \A j, k \in 1..Len(K) : j < k => K[j].idx < K[k].idx

\* A table whose PRIMARY KEY clause names two columns in the reverse of
\* their schema order, one of them also declared inline, has given a key of
\* two pairs in schema order.
C12_Witness ==
    /\ PrimaryKeyDone
    /\ args.schema.keys # None
    /\ Len(ret.val) = 2
    /\ args.schema.keys.val[1] = PrimaryKey(<<ret.val[2].column, ret.val[1].column>>)
    /\ "PrimaryKey" \in args.schema.fields[ret.val[1].idx + 1].constraints


(***************************************************************************)
(* Properties of run()                                                     *)
(***************************************************************************)
\* The threads that are still serving their connection.
InFlight == {t \in Spawned : conns[t].pc \notin Ended}

\* C14: once the accept loop has seen the shutdown signal no thread is
\* spawned, and the process does not end while a thread it has spawned is
\* still serving its connection, however the other threads have ended.
C14_DrainsEveryWorker ==
    /\ [][main.pc # "accepting" => Spawned' = Spawned]_vars
    /\ [](ProcessExited => InFlight = {})

\* C15: a thread that ends on ConnectionReset or BrokenPipe changes nothing
\* but its own state and leaves the process running; once a thread has
\* failed with another I/O error the process serves nothing any more: no
\* connection is accepted and no other connection goes on.
C15_OnlyOtherErrorsAreFatal ==
    /\ [][\A t \in Conns :
            (conns[t].pc # "reset" /\ conns'[t].pc = "reset")
                => /\ main' = main /\ ~ProcessExited'
                   /\ \A u \in Conns \ {t} : conns'[u] = conns[u]]_vars
    /\ [][(\E t \in Conns : conns[t].pc = "panicked") => conns' = conns]_vars


(***************************************************************************)
(* Properties of sanitize_query                                            *)
(***************************************************************************)
SanitizeDone == pc = "done" /\ call = "sanitize_query"

\* The text holds a block comment: `/*` with a `*/` after it.
HasBlockComment(q) ==
    \E i \in 1..(Len(q) - 3) :
        q[i] = "/" /\ q[i + 1] = "*" /\ BlockEnds(q, i + 2) # {}

\* The text holds a line comment: `--` with the newline that ends it.
HasLineComment(q) ==
    \E i \in 1..(Len(q) - 2) :
        q[i] = "-" /\ q[i + 1] = "-" /\ Newlines(q, i + 2) # {}

\* C18: what sanitize_query returns holds no block comment and no line
\* comment, has no two spaces in a row and neither starts nor ends with
\* whitespace.
C18_NoCommentsNoRuns ==
    SanitizeDone =>
        /\ ~HasBlockComment(ret.val)
        /\ ~HasLineComment(ret.val)
        /\ \A i \in 1..(Len(ret.val) - 1) : ~(ret.val[i] = " " /\ ret.val[i + 1] = " ")
        /\ ret.val # <<>> =>
             Head(ret.val) \notin Whitespace /\ ret.val[Len(ret.val)] \notin Whitespace

=============================================================================
